---- MODULE Spec2Model ----
(***************************************************************************)
(* solidity-deployer: SingletonDeployer (deterministic, idempotent         *)
(* deployment through a singleton CREATE2 factory) and ContractVerifier    *)
(* (compiler-version resolution and dual-backend verification dispatch).   *)
(*                                                                         *)
(* Each asynchronous method is split at its await points: one action per   *)
(* segment of code that runs without suspension.  The chain, the compiler  *)
(* registry and the two verification backends are the environment.         *)
(***************************************************************************)
EXTENDS Integers, Sequences, FiniteSets, TLC

VARIABLES
    code,           \* chain: address -> deployed runtime code (only addresses that have code)
    blockGasLimit,  \* chain: gasLimit of the latest block
    txs,            \* chain: factory transactions sent so far
    pc,             \* per process: position inside deploy
    call,           \* per process: locals (and I/O record) of the running call
    shared,         \* per process: a txParams object the caller keeps and passes again
    hist,           \* per process: the calls that have ended, oldest first
    vpc,            \* verifier: position inside verifyContract / getLongVersion
    vcall,          \* verifier: locals of the running call
    vlog,           \* verifier: external requests made by the running call, in order
    vres,           \* verifier: outcome of the last call that ended
    vdone           \* verifier: number of calls that have ended

deployVars == <<code, blockGasLimit, txs, pc, call, shared, hist>>
verifyVars == <<vpc, vcall, vlog, vres, vdone>>
vars == <<code, blockGasLimit, txs, pc, call, shared, hist, vpc, vcall, vlog, vres, vdone>>

----------------------------------------------------------------------------
(* Bounds *)

\* deploy / addressOf calls made in one behaviour, over all processes
MaxCalls == 2

\* verifyContract / getLongVersion calls made in one behaviour
MaxVerifyCalls == 2

\* independent processes, each with its own signer and SingletonDeployer:
\* the caller makes any call with any txParams; the racer is another process
\* that deploys the same contracts with default txParams
Caller == "p1"
Racer == "p2"
Procs == {Caller, Racer}

\* gas limits the latest block may carry
BlockGasLimits == {10, 25}

----------------------------------------------------------------------------
(* JavaScript values *)

\* txParams.gasLimit is BigNumberish | undefined
GasUndefined == [t |-> "undefined", v |-> 0]
GasNumber(n) == [t |-> "number", v |-> n]
GasBigNumber(n) == [t |-> "BigNumber", v |-> n]

\* !x of JavaScript, for the values a gasLimit takes: undefined and the
\* number 0 are falsy, a BigNumber object is truthy whatever its value.
Falsy(g) == g.t = "undefined" \/ (g.t = "number" /\ g.v = 0)

\* getDeployTransaction(...).data is BytesLike | undefined
DataUndefined == [defined |-> FALSE, bytes |-> <<>>]
DataBytes(b) == [defined |-> TRUE, bytes |-> b]

\* a hex data string "0x.." has two characters per byte after the prefix
HexLength(bytes) == 2 + 2 * Len(bytes)

----------------------------------------------------------------------------
(* Contract factories the caller may pass *)

\* creation bytecode of each typechain factory; IFoo overrides
\* getDeployTransaction and yields no data, Abstract has empty bytecode
Bytecode(contract) ==
    IF contract = "Counter" THEN <<96, 128>> ELSE <<>>

\* c.getDeployTransaction(...args): creation code followed by the encoded
\* constructor arguments
getDeployTransaction(contract, args) ==
    IF contract = "IFoo" THEN DataUndefined
    ELSE DataBytes(Bytecode(contract) \o args)

\* (contract, constructor arguments) pairs a caller passes
Inputs ==
    { <<"Counter", <<>>>>, <<"IFoo", <<>>>>, <<"Abstract", <<>>>> }

\* gasLimit values a caller puts into a txParams literal ({} is undefined)
GasInputs == { GasUndefined, GasNumber(0), GasNumber(7) }

----------------------------------------------------------------------------
(* Address derivation *)

FactoryAddress == "0xce0042B868300000d44A59004Da54A005ffdcf9f"
HashZero == "0x00..00"

\* keccak256 as a perfect hash: a term that is equal only for equal input
keccak256(x) == [keccak |-> x]
solidityPack(types, values) == [packed |-> values]
hexDataSlice(h, offset) == [slice |-> h, from |-> offset]
getAddress(a) == [checksum |-> a]

\* the signer of each process's deployer, and its transaction count
signerOf(self) == IF self = Caller THEN "signer1" ELSE "signer2"
getTransactionCount(self) == Cardinality({t \in txs : t.from = self})

\* a CREATE-style derivation, from the sender and its nonce
addressFromData_nonce(self, data) ==
    getAddress(hexDataSlice(keccak256(
        solidityPack(<<"address", "uint256">>,
                     <<signerOf(self), getTransactionCount(self)>>)), 12))

\* SingletonDeployer.addressFromData
addressFromData(self, data) ==
    getAddress(hexDataSlice(keccak256(
        solidityPack(<<"bytes1", "address", "bytes32", "bytes32">>,
                     <<"0xff", FactoryAddress, HashZero, keccak256(data)>>)), 12))

----------------------------------------------------------------------------
(* The chain *)

\* address at which the factory's CREATE2 puts a contract
create2Address(salt, initCode) ==
    getAddress(hexDataSlice(keccak256(
        solidityPack(<<"bytes1", "address", "bytes32", "bytes32">>,
                     <<"0xff", FactoryAddress, salt, keccak256(initCode)>>)), 12))

\* runtime code the creation code returns: here the creation code without
\* its constructor arguments; empty creation code leaves empty code
runtimeCode(initCode) ==
    IF Len(initCode) = 0 THEN <<>> ELSE <<initCode[1]>>

\* provider.getCode(address): the hex string of the code, "0x" when none
getCode(address) ==
    IF address \in DOMAIN code THEN code[address] ELSE <<>>

----------------------------------------------------------------------------
(* SingletonDeployer *)

\* placeholder in the address slot of a call that has derived none
NoAddress == getAddress(hexDataSlice(keccak256(solidityPack(<<>>, <<>>)), 12))

\* new Error(...) with the values its template string interpolates
Error(text, name, hasAddress, address) ==
    [text |-> text, name |-> name, hasAddress |-> hasAddress, address |-> address]
NoError == Error("", "", FALSE, NoAddress)

\* locals of a call, with the record of the I/O it has done
NoCall ==
    [ op |-> "none", name |-> "", contract |-> "", data |-> DataUndefined,
      address |-> NoAddress,
      ref |-> "own",               \* which object txParams refers to
      params |-> GasUndefined,     \* gasLimit of the call's own txParams object
      supplied |-> GasUndefined,   \* gasLimit the caller put into txParams
      codeQ |-> 0,                 \* provider.getCode calls made
      blockQ |-> 0,                \* provider.getBlock calls made
      sendN |-> 0,                 \* singletonFactory.deploy calls made
      nonce |-> -1,                \* nonce of the transaction sent, -1 when none
      firstCode |-> -1,            \* string length the first getCode returned
      lastCode |-> -1,             \* string length the latest getCode returned
      blockRead |-> 0,             \* gasLimit of the block getBlock returned
      gasPassed |-> GasUndefined,  \* gasLimit passed to singletonFactory.deploy
      tag |-> "running",           \* "handle" | "address" | "error" once ended
      result |-> NoAddress,        \* address of the returned handle / address
      err |-> NoError ]

\* what hist keeps of an ended call
Summary(c) ==
    [ op |-> c.op, name |-> c.name, data |-> c.data, address |-> c.address,
      codeQ |-> c.codeQ, blockQ |-> c.blockQ, sendN |-> c.sendN,
      firstCode |-> c.firstCode, lastCode |-> c.lastCode,
      tag |-> c.tag, result |-> c.result, err |-> c.err ]

Running(p) == pc[p] # "idle"
CallsStarted ==
    Len(hist[Caller]) + Len(hist[Racer]) + Cardinality({p \in Procs : Running(p)})

\* the txParams object of the running call
txParams(p) == IF call[p].ref = "shared" THEN shared[p] ELSE call[p].params

\* b.gasLimit.mul(4).div(10)
gasEstimate(G) == GasBigNumber((G * 4) \div 10)

\* the call ends: the promise settles with c's outcome
End(p, c) ==
    /\ call' = [call EXCEPT ![p] = NoCall]
    /\ hist' = [hist EXCEPT ![p] = Append(@, Summary(c))]
    /\ pc' = [pc EXCEPT ![p] = "idle"]

Return(p, c) == End(p, [c EXCEPT !.tag = "handle", !.result = c.address])
Throw(p, c, e) == End(p, [c EXCEPT !.tag = "error", !.err = e])

\* line 46: (await this.provider.getCode(address)).length > 2
alreadyDeployed_off(len) == len > 4
alreadyDeployed(len) == len > 2

\* line 68: (await this.provider.getCode(address)).length <= 2
notDeployed_never(len) == len < 2
notDeployed(len) == len <= 2

\* lines 69-71: new Error(`Failed to deploy ${name} at ${address}`)
confirmationError_bare(name, address) == Error("Failed to deploy", "", FALSE, NoAddress)
confirmationError(name, address) == Error("Failed to deploy", name, TRUE, address)

\* a deploy without the check of lines 40-42: it goes on to the provider
\* with whatever data it has
deployBegin_late(p, contract, args, ref, gas) ==
    /\ ~Running(p)
    /\ CallsStarted < MaxCalls
    /\ ref = "shared" => gas = GasUndefined
    /\ LET data == getDeployTransaction(contract, args)
           c0 == [NoCall EXCEPT !.op = "deploy", !.name = contract,
                                !.contract = contract, !.data = data,
                                !.ref = ref, !.params = gas,
                                !.supplied = IF ref = "shared" THEN GasUndefined ELSE gas]
       IN /\ call' = [call EXCEPT ![p] =
                  [c0 EXCEPT !.address = addressFromData(p, data.bytes)]]
          /\ pc' = [pc EXCEPT ![p] = "getCode"]
          /\ hist' = hist
    /\ UNCHANGED <<code, blockGasLimit, txs, shared, verifyVars>>

\* deploy, lines 36-45: up to the first provider call
deployBegin(p, contract, args, ref, gas) ==
    /\ ~Running(p)
    /\ CallsStarted < MaxCalls
    /\ ref = "shared" => gas = GasUndefined    \* the object is passed as it stands
    /\ LET data == getDeployTransaction(contract, args)
           c0 == [NoCall EXCEPT !.op = "deploy", !.name = contract,
                                !.contract = contract, !.data = data,
                                !.ref = ref, !.params = gas,
                                !.supplied = IF ref = "shared" THEN GasUndefined ELSE gas]
       IN IF ~data.defined
          THEN Throw(p, c0, Error("No data for", contract, FALSE, NoAddress))
          ELSE /\ call' = [call EXCEPT ![p] =
                       [c0 EXCEPT !.address = addressFromData(p, data.bytes)]]
               /\ pc' = [pc EXCEPT ![p] = "getCode"]
               /\ hist' = hist
    /\ UNCHANGED <<code, blockGasLimit, txs, shared, verifyVars>>

\* deploy, lines 46-54: the first getCode resolves
deployGetCode(p) ==
    /\ pc[p] = "getCode"
    /\ LET len == HexLength(getCode(call[p].address))
           c == [call[p] EXCEPT !.codeQ = @ + 1, !.firstCode = len, !.lastCode = len]
       IN IF alreadyDeployed(len)
          THEN Return(p, c)
          ELSE /\ call' = [call EXCEPT ![p] = c]
               /\ pc' = [pc EXCEPT ![p] =
                           IF Falsy(txParams(p)) THEN "getBlock" ELSE "send"]
               /\ hist' = hist
    /\ UNCHANGED <<code, blockGasLimit, txs, shared, verifyVars>>

\* deploy, lines 55-57: getBlock('latest') resolves
deployGetBlock(p) ==
    /\ pc[p] = "getBlock"
    /\ LET c == [call[p] EXCEPT !.blockQ = @ + 1, !.blockRead = blockGasLimit]
       IN IF c.ref = "shared"
          THEN /\ shared' = [shared EXCEPT ![p] = gasEstimate(blockGasLimit)]
               /\ call' = [call EXCEPT ![p] = c]
          ELSE /\ shared' = shared
               /\ call' = [call EXCEPT ![p] = [c EXCEPT !.params = gasEstimate(blockGasLimit)]]
    /\ pc' = [pc EXCEPT ![p] = "send"]
    /\ UNCHANGED <<code, blockGasLimit, txs, hist, verifyVars>>

\* what singletonFactory.deploy or tx.wait() rejects with: the provider's
\* error, passed on as it is (no try/catch, no message of deploy's own)
transactionError == Error("transaction failed", "", FALSE, NoAddress)

\* deploy, lines 60-64: singletonFactory.deploy(data, HashZero, txParams)
deploySend(p) ==
    /\ pc[p] = "send"
    /\ LET c == [call[p] EXCEPT !.sendN = @ + 1, !.gasPassed = txParams(p)]
       IN \/ /\ Throw(p, c, transactionError)
             /\ txs' = txs
          \/ /\ txs' = txs \cup
                   {[ from |-> p, nonce |-> getTransactionCount(p),
                      data |-> c.data.bytes, salt |-> HashZero, status |-> "pending" ]}
             /\ call' = [call EXCEPT ![p] = [c EXCEPT !.nonce = getTransactionCount(p)]]
             /\ pc' = [pc EXCEPT ![p] = "wait"]
             /\ hist' = hist
    /\ UNCHANGED <<code, blockGasLimit, shared, verifyVars>>

\* the transaction the running call sent
txOf(p) == CHOOSE t \in txs : t.from = p /\ t.nonce = call[p].nonce

\* a wait whose failure is swallowed: deploy goes on to confirm
deployWait_goOn(p) ==
    /\ pc[p] = "wait"
    /\ pc' = [pc EXCEPT ![p] = "confirm"]
    /\ UNCHANGED <<call, hist>>
    /\ UNCHANGED <<code, blockGasLimit, txs, shared, verifyVars>>

\* deploy, line 65: tx.wait() settles
deployWait(p) ==
    /\ pc[p] = "wait"
    /\ IF txOf(p).status \in {"created", "occupied", "fizzled"}
       THEN /\ pc' = [pc EXCEPT ![p] = "confirm"]
            /\ UNCHANGED <<call, hist>>
       ELSE \* reverted, or still pending when the provider gives up
            Throw(p, call[p], transactionError)
    /\ UNCHANGED <<code, blockGasLimit, txs, shared, verifyVars>>

\* deploy, lines 67-74: the second getCode resolves
deployConfirm(p) ==
    /\ pc[p] = "confirm"
    /\ LET len == HexLength(getCode(call[p].address))
           c == [call[p] EXCEPT !.codeQ = @ + 1, !.lastCode = len]
       IN IF notDeployed(len)
          THEN Throw(p, c, confirmationError(c.name, c.address))
          ELSE Return(p, c)
    /\ UNCHANGED <<code, blockGasLimit, txs, shared, verifyVars>>

\* an addressOf that looks the derived address up on the chain
addressOf_probe(p, contract, args) ==
    /\ ~Running(p)
    /\ CallsStarted < MaxCalls
    /\ LET data == getDeployTransaction(contract, args)
           c0 == [NoCall EXCEPT !.op = "addressOf", !.name = contract,
                                !.contract = contract, !.data = data]
       IN IF ~data.defined
          THEN Throw(p, c0, Error("No data for", contract, FALSE, NoAddress))
          ELSE End(p, [c0 EXCEPT !.address = addressFromData(p, data.bytes),
                                 !.codeQ = 1,
                                 !.lastCode = HexLength(getCode(addressFromData(p, data.bytes))),
                                 !.tag = "address",
                                 !.result = addressFromData(p, data.bytes)])
    /\ UNCHANGED <<code, blockGasLimit, txs, shared, verifyVars>>

\* addressOf, lines 77-87
addressOf(p, contract, args) ==
    /\ ~Running(p)
    /\ CallsStarted < MaxCalls
    /\ LET data == getDeployTransaction(contract, args)
           c0 == [NoCall EXCEPT !.op = "addressOf", !.name = contract,
                                !.contract = contract, !.data = data]
       IN IF ~data.defined
          THEN Throw(p, c0, Error("No data for", contract, FALSE, NoAddress))
          ELSE End(p, [c0 EXCEPT !.address = addressFromData(p, data.bytes),
                                 !.tag = "address",
                                 !.result = addressFromData(p, data.bytes)])
    /\ UNCHANGED <<code, blockGasLimit, txs, shared, verifyVars>>

----------------------------------------------------------------------------
(* The chain as the deployer's environment *)

\* a pending factory transaction is included.  It reverts (out of gas:
\* "reverted"), or it succeeds, and then CREATE2
\*   - puts the runtime code at the derived address ("created"),
\*   - finds the address taken and changes nothing ("occupied"),
\*   - or creates nothing because the creation code fails or returns no
\*     code ("fizzled");
\* the factory does not revert when CREATE2 creates nothing.
setStatus(t, st) == (txs \ {t}) \cup {[t EXCEPT !.status = st]}

mine(t, outcome) ==
    /\ t \in txs
    /\ t.status = "pending"
    /\ LET a == create2Address(t.salt, t.data)
       IN CASE outcome = "reverted" ->
                 /\ txs' = setStatus(t, "reverted")
                 /\ code' = code
            [] outcome = "created" ->
                 /\ a \notin DOMAIN code
                 /\ Len(runtimeCode(t.data)) > 0
                 /\ txs' = setStatus(t, "created")
                 /\ code' = [x \in DOMAIN code \cup {a} |->
                               IF x = a THEN runtimeCode(t.data) ELSE code[x]]
            [] outcome = "occupied" ->
                 /\ a \in DOMAIN code
                 /\ txs' = setStatus(t, "occupied")
                 /\ code' = code
            [] OTHER ->
                 /\ a \notin DOMAIN code
                 /\ txs' = setStatus(t, "fizzled")
                 /\ code' = code
    /\ UNCHANGED <<blockGasLimit, pc, call, shared, hist, verifyVars>>

\* a new latest block with another gas limit
newBlock(G) ==
    /\ G # blockGasLimit
    /\ blockGasLimit' = G
    /\ UNCHANGED <<code, txs, pc, call, shared, hist, verifyVars>>

----------------------------------------------------------------------------
(* Strings, as sequences of characters *)

\* s.includes(ch)
includes(s, ch) == \E i \in 1..Len(s) : s[i] = ch

\* s.split(ch)[0]: the part before the first ch, all of s when there is none
splitFirst(s, ch) ==
    IF includes(s, ch)
    THEN SubSeq(s, 1, (CHOOSE i \in 1..Len(s) :
                          s[i] = ch /\ \A k \in 1..(i - 1) : s[k] # ch) - 1)
    ELSE s

\* . of a regular expression matches any character but a line terminator
Dot(c) == c # "\n"

SOLJSON == <<"s", "o", "l", "j", "s", "o", "n", "-">>

\* /(soljson-)(.*)(.js)/ matches s from position i with (.js) at k..k+2
Matches(s, i, k) ==
    /\ i + 7 <= Len(s)
    /\ SubSeq(s, i, i + 7) = SOLJSON
    /\ k >= i + 8
    /\ k + 2 <= Len(s)
    /\ \A x \in (i + 8)..k : Dot(s[x])
    /\ s[k + 1] = "j"
    /\ s[k + 2] = "s"

\* the replacement with a lazy (.*?): (.js) taken at its first place
replaceSoljson_lazy(s) ==
    LET starts == {i \in 1..Len(s) : \E k \in 1..Len(s) : Matches(s, i, k)}
    IN IF starts = {} THEN s
       ELSE LET i == CHOOSE a \in starts : \A b \in starts : a <= b
                k == CHOOSE a \in 1..Len(s) :
                        /\ Matches(s, i, a)
                        /\ \A b \in 1..Len(s) : Matches(s, i, b) => a <= b
            IN SubSeq(s, 1, i - 1) \o SubSeq(s, i + 8, k - 1)
                 \o SubSeq(s, k + 3, Len(s))

\* fullVersion.replace(/(soljson-)(.*)(.js)/, '$2'): the leftmost match,
\* its (.*) as long as it can be, replaced by what (.*) matched
replaceSoljson(s) ==
    LET starts == {i \in 1..Len(s) : \E k \in 1..Len(s) : Matches(s, i, k)}
    IN IF starts = {} THEN s
       ELSE LET i == CHOOSE a \in starts : \A b \in starts : a <= b
                k == CHOOSE a \in 1..Len(s) :
                        /\ Matches(s, i, a)
                        /\ \A b \in 1..Len(s) : Matches(s, i, b) => b <= a
            IN SubSeq(s, 1, i - 1) \o SubSeq(s, i + 8, k - 1)
                 \o SubSeq(s, k + 3, Len(s))

----------------------------------------------------------------------------
(* The compiler registry and the verification backends *)

\* compiler versions a caller asks for: short ones, and a long one
V1 == <<"v", "1">>
V2 == <<"v", "2">>
V3 == <<"v", "3">>
V1Long == <<"v", "1", "+", "c", "9">>
Versions == {V1, V2, V3, V1Long}

\* long versions a registry file name may embed: a plain one, ones that hold
\* "js" after some character, ".js" or "soljson-" themselves, and the empty one
LongVersions ==
    { V1Long,
      <<"v", "1", "+", "x", "j", "s">>,
      <<"v", "1", ".", "j", "s", "9">>,
      SOLJSON \o <<"9">>,
      <<>> }

\* list.json documents the registry may serve: releases maps a short
\* version to a file name (or to a string that is none)
Releases ==
    { [v \in {V1, V2} |-> IF v = V1 THEN SOLJSON \o L \o <<".", "j", "s">>
                          ELSE <<>>] : L \in LongVersions }
    \cup
    { [v \in {V1} |-> V1Long],
      [v \in {} |-> <<>>] }

\* what axios.get settles with: a rejection, or a response
Responses ==
    { [failed |-> TRUE, status |-> 0, hasReleases |-> FALSE, releases |-> [v \in {} |-> <<>>]] }
    \cup
    { [failed |-> FALSE, status |-> st, hasReleases |-> h, releases |-> r] :
        st \in {199, 200, 299, 300}, h \in BOOLEAN, r \in Releases }

----------------------------------------------------------------------------
(* ContractVerifier *)

\* what a call settles with.  names: the version an error's message
\* interpolates; the messages thrown to the caller (lines 70 and 173) are
\* string literals and interpolate none, and the errors of lines 155 and 163,
\* which do, are caught at line 172 and dropped
VError(text) == [ok |-> FALSE, value |-> <<>>, text |-> text, names |-> <<>>]
VOk(value) == [ok |-> TRUE, value |-> value, text |-> "", names |-> <<>>]
VNone == [ok |-> FALSE, value |-> <<>>, text |-> "none", names |-> <<>>]

\* a getLongVersion that checks for a missing entry only, not for ''
getLongVersion_undefinedOnly(shortVersion, resp) ==
    IF \/ resp.failed
       \/ resp.status < 200 \/ resp.status > 299
       \/ ~resp.hasReleases
       \/ shortVersion \notin DOMAIN resp.releases
    THEN VError("Unable to determine solidity compiler version")
    ELSE VOk(replaceSoljson(resp.releases[shortVersion]))

\* getLongVersion, lines 149-176, once axios.get has settled with resp
getLongVersion(shortVersion, resp) ==
    IF \/ resp.failed
       \/ resp.status < 200 \/ resp.status > 299
       \/ ~resp.hasReleases          \* responseText.releases[...] throws a TypeError
       \/ shortVersion \notin DOMAIN resp.releases    \* undefined
       \/ resp.releases[shortVersion] = <<>>
    THEN VError("Unable to determine solidity compiler version")
    ELSE VOk(replaceSoljson(resp.releases[shortVersion]))

NoResponse ==
    [failed |-> FALSE, status |-> 0, hasReleases |-> FALSE, releases |-> [v \in {} |-> <<>>]]

NoVCall ==
    [ op |-> "none", version |-> <<>>, shortVersion |-> <<>>, longVersion |-> <<>>,
      response |-> NoResponse,
      factory |-> "", expected |-> <<>>,   \* arguments of validateBytecode
      adds |-> 0,                          \* tenderly.contracts.add calls made
      verifies |-> 0 ]                     \* tenderly.contracts.verify calls made

VEvent(svc, ok, version) == [svc |-> svc, ok |-> ok, version |-> version]

VEnd(r) ==
    /\ vpc' = "idle"
    /\ vres' = r
    /\ vdone' = vdone + 1

\* a verifyContract that asks the registry whatever the version looks like
verifyContract_lookup(version) ==
    /\ vpc = "idle"
    /\ vdone < MaxVerifyCalls
    /\ vlog' = <<>>
    /\ vres' = VNone
    /\ vcall' = [NoVCall EXCEPT !.op = "verifyContract", !.version = version,
                                  !.shortVersion = splitFirst(version, "+"),
                                  !.longVersion = version]
    /\ vpc' = "fetch"
    /\ UNCHANGED <<vdone, deployVars>>

\* verifyContract, lines 78-89: up to the first await
verifyContract(version) ==
    /\ vpc = "idle"
    /\ vdone < MaxVerifyCalls
    /\ vlog' = <<>>
    /\ vres' = VNone
    /\ IF includes(version, "+")
       THEN /\ vcall' = [NoVCall EXCEPT !.op = "verifyContract", !.version = version,
                                          !.shortVersion = splitFirst(version, "+"),
                                          !.longVersion = version]
            /\ vpc' = "tenderly"
       ELSE /\ vcall' = [NoVCall EXCEPT !.op = "verifyContract", !.version = version,
                                          !.shortVersion = version,
                                          !.longVersion = version]
            /\ vpc' = "fetch"
    /\ UNCHANGED <<vdone, deployVars>>

\* a direct call of getLongVersion, up to axios.get
getLongVersionBegin(version) ==
    /\ vpc = "idle"
    /\ vdone < MaxVerifyCalls
    /\ vlog' = <<>>
    /\ vres' = VNone
    /\ vcall' = [NoVCall EXCEPT !.op = "getLongVersion", !.version = version,
                                  !.shortVersion = version]
    /\ vpc' = "fetch"
    /\ UNCHANGED <<vdone, deployVars>>

\* a lookup whose failure does not stop verifyContract
registryFetch_goOn(resp) ==
    /\ vpc = "fetch"
    /\ vlog' = Append(vlog, VEvent("registry", ~resp.failed, vcall.version))
    /\ LET r == getLongVersion(vcall.version, resp)
       IN IF vcall.op = "getLongVersion"
          THEN VEnd(r) /\ vcall' = [vcall EXCEPT !.response = resp]
          ELSE /\ vcall' = [vcall EXCEPT !.response = resp, !.longVersion = r.value]
               /\ vpc' = "tenderly"
               /\ UNCHANGED <<vres, vdone>>
    /\ UNCHANGED deployVars

\* axios.get(COMPILERS_LIST_URL) settles, and getLongVersion with it
registryFetch(resp) ==
    /\ vpc = "fetch"
    /\ vlog' = Append(vlog, VEvent("registry", ~resp.failed, vcall.version))
    /\ LET r == getLongVersion(vcall.version, resp)
       IN IF vcall.op = "getLongVersion" \/ ~r.ok
          THEN VEnd(r) /\ vcall' = [vcall EXCEPT !.response = resp]
          ELSE /\ vcall' = [vcall EXCEPT !.response = resp, !.longVersion = r.value]
               /\ vpc' = "tenderly"
               /\ UNCHANGED <<vres, vdone>>
    /\ UNCHANGED deployVars

\* TenderlyVerifier.verifyContract with the Tenderly client: it registers
\* the contract (contracts.add) and then requests its verification
\* (contracts.verify); the call fails when either of the two does, at "add"
\* before verification is requested
tenderlyVerifierCalls(c, failedAt) ==
    [c EXCEPT !.adds = @ + 1,
              !.verifies = @ + (IF failedAt = "add" THEN 0 ELSE 1)]

\* a dispatch that submits to Tenderly twice over
tenderlySubmit_twice(ok) ==
    /\ vpc = "tenderly"
    /\ vlog' = vlog \o << VEvent("tenderly", ok, vcall.shortVersion),
                          VEvent("tenderly", ok, vcall.shortVersion) >>
    /\ vcall' = tenderlyVerifierCalls(tenderlyVerifierCalls(vcall, "none"), "none")
    /\ IF ok
       THEN vpc' = "etherscan" /\ UNCHANGED <<vres, vdone>>
       ELSE VEnd(VError("tenderly"))
    /\ UNCHANGED deployVars

\* a dispatch that goes on to Etherscan whatever Tenderly answered
tenderlySubmit_goOn(ok) ==
    /\ vpc = "tenderly"
    /\ vlog' = Append(vlog, VEvent("tenderly", ok, vcall.shortVersion))
    /\ vpc' = "etherscan"
    /\ UNCHANGED <<vres, vdone, vcall, deployVars>>

\* verifyContract, lines 134-138: tenderlyVerifier.verifyContract settles
tenderlySubmit(ok) ==
    /\ vpc = "tenderly"
    /\ vlog' = Append(vlog, VEvent("tenderly", ok, vcall.shortVersion))
    /\ \E failedAt \in (IF ok THEN {"none"} ELSE {"add", "verify"}) :
          vcall' = tenderlyVerifierCalls(vcall, failedAt)
    /\ IF ok
       THEN vpc' = "etherscan" /\ UNCHANGED <<vres, vdone>>
       ELSE VEnd(VError("tenderly"))
    /\ UNCHANGED deployVars

\* a dispatch that reports success whatever Etherscan answered
etherscanSubmit_swallow(ok) ==
    /\ vpc = "etherscan"
    /\ vlog' = Append(vlog, VEvent("etherscan", ok, vcall.longVersion))
    /\ VEnd(VOk(<<>>))
    /\ UNCHANGED <<vcall, deployVars>>

\* verifyContract, lines 139-143: etherscanVerifier.verifyContract settles
etherscanSubmit(ok) ==
    /\ vpc = "etherscan"
    /\ vlog' = Append(vlog, VEvent("etherscan", ok, vcall.longVersion))
    /\ VEnd(IF ok THEN VOk(<<>>) ELSE VError("etherscan"))
    /\ UNCHANGED <<vcall, deployVars>>

\* values a caller passes as expectedBytecode: Counter's creation bytecode,
\* the same with its last byte changed, cut short, extended, and nothing
ExpectedBytecodes ==
    { <<96, 128>>, <<96, 129>>, <<97, 128>>, <<96>>, <<96, 128, 0>>, <<>> }

\* a comparison of the lengths only
bytecodeMismatch_length(bytecode, expectedBytecode) ==
    Len(bytecode) # Len(expectedBytecode)

\* line 69: factory.bytecode !== expectedBytecode
bytecodeMismatch(bytecode, expectedBytecode) == bytecode # expectedBytecode

\* validateBytecode, lines 63-72 (synchronous)
validateBytecode(contractFactory, expectedBytecode) ==
    /\ vpc = "idle"
    /\ vdone < MaxVerifyCalls
    /\ vlog' = <<>>
    /\ vcall' = [NoVCall EXCEPT !.op = "validateBytecode",
                                  !.factory = contractFactory,
                                  !.expected = expectedBytecode]
    /\ VEnd(IF bytecodeMismatch(Bytecode(contractFactory), expectedBytecode)
            THEN VError("Bytecode mismatch")
            ELSE VOk(<<>>))
    /\ UNCHANGED deployVars

VerifyInit ==
    /\ vpc = "idle"
    /\ vcall = NoVCall
    /\ vlog = <<>>
    /\ vres = VNone
    /\ vdone = 0

----------------------------------------------------------------------------
(* Specification of the deployer *)

DeployInit ==
    /\ code = [a \in {} |-> <<>>]
    /\ blockGasLimit \in BlockGasLimits
    /\ txs = {}
    /\ pc = [p \in Procs |-> "idle"]
    /\ call = [p \in Procs |-> NoCall]
    /\ shared = [p \in Procs |-> GasUndefined]
    /\ hist = [p \in Procs |-> <<>>]

Init == DeployInit /\ VerifyInit

Next ==
    \/ \E i \in Inputs, ref \in {"own", "shared"}, gas \in GasInputs :
          deployBegin(Caller, i[1], i[2], ref, gas)
    \/ \E i \in Inputs : deployBegin(Racer, i[1], i[2], "own", GasUndefined)
    \/ \E p \in Procs : deployGetCode(p)
    \/ \E p \in Procs : deployGetBlock(p)
    \/ \E p \in Procs : deploySend(p)
    \/ \E p \in Procs : deployWait(p)
    \/ \E p \in Procs : deployConfirm(p)
    \/ \E i \in Inputs : addressOf(Caller, i[1], i[2])
    \/ \E t \in txs, outcome \in {"reverted", "created", "occupied", "fizzled"} :
          mine(t, outcome)
    \/ \E G \in BlockGasLimits : newBlock(G)

Spec == Init /\ [][Next]_vars

----------------------------------------------------------------------------
(* Specification of the verifier *)

VerifierInit ==
    /\ code = [a \in {} |-> <<>>]
    /\ blockGasLimit = 10
    /\ txs = {}
    /\ pc = [p \in Procs |-> "idle"]
    /\ call = [p \in Procs |-> NoCall]
    /\ shared = [p \in Procs |-> GasUndefined]
    /\ hist = [p \in Procs |-> <<>>]
    /\ VerifyInit

VerifierNext ==
    \/ \E v \in Versions : verifyContract(v)
    \/ \E v \in Versions : getLongVersionBegin(v)
    \/ \E resp \in Responses : registryFetch(resp)
    \/ \E ok \in BOOLEAN : tenderlySubmit(ok)
    \/ \E ok \in BOOLEAN : etherscanSubmit(ok)
    \/ \E c \in {"Counter", "Abstract"}, b \in ExpectedBytecodes : validateBytecode(c, b)

VerifierSpec == VerifierInit /\ [][VerifierNext]_vars

----------------------------------------------------------------------------
(* Properties of deploy and addressOf *)

\* the calls that have ended
EndedCalls == UNION {{hist[p][i] : i \in 1..Len(hist[p])} : p \in Procs}

\* transactions that deployed code at address a
Created(a) == {t \in txs : t.status = "created" /\ create2Address(t.salt, t.data) = a}

\* C1: when one caller's deploy of a contract finds no code at the derived
\* address and returns a handle, and the same caller then calls deploy again
\* with the same contract and arguments, the two calls together invoked the
\* factory exactly once, the second call invoked it not at all and returned
\* a handle at the same address.
C1_Idempotent ==
    \A p \in Procs : \A i \in 1..(Len(hist[p]) - 1) :
        LET a == hist[p][i]
            b == hist[p][i + 1]
        IN (/\ a.op = "deploy" /\ b.op = "deploy"
            /\ a.name = b.name /\ a.data = b.data
            /\ a.firstCode = 2
            /\ a.tag = "handle")
           => /\ a.sendN + b.sendN = 1
              /\ b.sendN = 0
              /\ b.tag = "handle"
              /\ b.result = a.result

C1_Witness ==
    \E p \in Procs :
        /\ Len(hist[p]) = 2
        /\ hist[p][1].op = "deploy" /\ hist[p][2].op = "deploy"
        /\ hist[p][1].data = hist[p][2].data
        /\ hist[p][1].firstCode = 2
        /\ hist[p][1].tag = "handle"
        /\ hist[p][2].tag = "handle"

\* C2: a deploy call whose first code query at the derived address returns
\* non-empty code never invokes the factory and returns a handle bound to
\* the derived address.
C2_SkipWhenDeployed ==
    /\ \A p \in Procs : call[p].firstCode > 2 => call[p].sendN = 0
    /\ \A e \in EndedCalls :
          (e.op = "deploy" /\ e.firstCode > 2)
          => /\ e.sendN = 0
             /\ e.tag = "handle"
             /\ e.result = e.address
             /\ e.address = create2Address(HashZero, e.data.bytes)

C2_Witness ==
    \E e \in EndedCalls : e.op = "deploy" /\ e.firstCode > 2 /\ e.tag = "handle"

\* C3: a deploy call that sent its transaction, saw the wait succeed and then
\* read empty code at the derived address ends with the error "Failed to
\* deploy <name> at <address>", which names the contract and the derived
\* address, and returns no handle.
C3_ConfirmationError ==
    \A e \in EndedCalls :
        (e.op = "deploy" /\ e.sendN = 1 /\ e.codeQ = 2 /\ e.lastCode = 2)
        => /\ e.tag = "error"
           /\ e.err.text = "Failed to deploy"
           /\ e.err.name = e.name
           /\ e.err.hasAddress
           /\ e.err.address = e.address

C3_Witness ==
    \E e \in EndedCalls :
        /\ e.op = "deploy" /\ e.sendN = 1 /\ e.codeQ = 2 /\ e.lastCode = 2
        /\ e.tag = "error"
        /\ e.data.bytes # <<>>

\* two deploy calls of different processes for the same creation data, at
\* least one of which found the derived address without code
Race(a, b) ==
    /\ a.op = "deploy" /\ b.op = "deploy"
    /\ a.data.defined /\ a.data = b.data
    /\ (a.firstCode = 2 \/ b.firstCode = 2)
RacePairs ==
    {<<hist[Caller][i], hist[Racer][j]>> :
        i \in 1..Len(hist[Caller]), j \in 1..Len(hist[Racer])}

TxFailed(e) == e.tag = "error" /\ e.err.text = "transaction failed"
Fizzled(a) == {t \in txs : t.status = "fizzled" /\ create2Address(t.salt, t.data) = a}

Derived ==
    {e \in EndedCalls : e.data.defined}
      \cup {Summary(call[p]) : p \in {q \in Procs : Running(q)}}

\* C6: any two calls (deploy or addressOf, of either signer, at any nonce and
\* chain state) with equal creation data derived the same address.
C6_Deterministic ==
    \A e1 \in Derived : \A e2 \in Derived :
        e1.data = e2.data => e1.address = e2.address

\* the same signer derived the address of the same data before and after a
\* transaction of its own deployed the contract
C6_Witness ==
    \E p \in Procs :
        /\ Len(hist[p]) = 2
        /\ hist[p][1].op = "deploy" /\ hist[p][1].sendN = 1
        /\ hist[p][1].tag = "handle"
        /\ hist[p][2].op = "addressOf" /\ hist[p][2].tag = "address"
        /\ hist[p][2].data = hist[p][1].data

\* C7: a step in which an addressOf call is made leaves the chain and the
\* caller's txParams object as they are, and the call has made no code
\* query, no block query and no factory call; when it returns, it returns
\* the address derived from the creation data.
C7_AddressOfNoIO ==
    [][ \A p \in Procs :
          (/\ Len(hist'[p]) = Len(hist[p]) + 1
           /\ hist'[p][Len(hist'[p])].op = "addressOf")
          => LET e == hist'[p][Len(hist'[p])]
             IN /\ code' = code /\ txs' = txs /\ blockGasLimit' = blockGasLimit
                /\ shared' = shared
                /\ e.codeQ = 0 /\ e.blockQ = 0 /\ e.sendN = 0
                /\ e.tag = "address" => e.result = create2Address(HashZero, e.data.bytes)
      ]_vars

C7_Witness ==
    \E e \in EndedCalls : e.op = "addressOf" /\ e.tag = "address"

\* C8 as claimed: in the step in which a deploy call passes its transaction
\* to the factory, the gas limit it passes is 40% (rounded down) of the gas
\* limit of the latest block, the one it queried or else the one latest at
\* that moment, when the caller supplied no gas limit (none, or the number
\* 0, which the code takes for none), and is the caller's gas limit
\* otherwise.
C8_GasLimitPassed ==
    [][ \A p \in Procs :
          (pc[p] = "send" /\ pc'[p] = "wait")
          => LET c == call'[p]
             IN IF Falsy(c.supplied)
                THEN c.gasPassed =
                       gasEstimate(IF c.blockQ > 0 THEN c.blockRead ELSE blockGasLimit)
                ELSE c.gasPassed = c.supplied
      ]_vars

\* C9 as claimed: a deploy call that reaches the factory call and whose
\* caller put no gasLimit into txParams has queried the latest block itself,
\* and an estimate it passes on is one it computed itself.
C9_EstimatePerCall ==
    \A p \in Procs :
        LET c == call[p]
        IN /\ (pc[p] \in {"send", "wait"} /\ c.supplied.t = "undefined")
              => c.blockQ = 1
           /\ (pc[p] = "wait" /\ c.gasPassed.t = "BigNumber")
              => c.blockQ = 1

\* in this step the factory call of p's deploy is rejected: no transaction
\* goes out
SendFails(p) == pc[p] = "send" /\ pc'[p] # "send" /\ txs' = txs

\* in this step the wait of p's deploy ends although the transaction was not
\* included successfully: it reverted, or the provider gave up waiting
WaitFails(p) ==
    /\ pc[p] = "wait" /\ pc'[p] # "wait"
    /\ txOf(p).status \notin {"created", "occupied", "fizzled"}

\* C16: a step in which the factory call or the wait of a deploy call fails
\* ends the call with that failure: no handle, no second code query, no
\* further transaction; and no deploy call ever makes more than one factory
\* call.
C16_NeverRetried ==
    [][ \A p \in Procs :
          /\ call'[p].sendN <= 1
          /\ Cardinality({t \in txs' : t.from = p})
                <= Cardinality({t \in txs : t.from = p}) + 1
          /\ (SendFails(p) \/ WaitFails(p))
             => /\ pc'[p] = "idle"
                /\ txs' = txs
                /\ Len(hist'[p]) = Len(hist[p]) + 1
                /\ LET e == hist'[p][Len(hist'[p])]
                   IN /\ e.tag = "error"
                      /\ e.err = transactionError
                      /\ e.result = NoAddress
                      /\ e.sendN = 1
                      /\ e.codeQ = 1
      ]_vars

\* a deploy call has ended with the failure of its wait: its transaction
\* reverted
C16_Witness ==
    \E p \in Procs : \E i \in 1..Len(hist[p]) :
        /\ hist[p][i].op = "deploy"
        /\ hist[p][i].tag = "error"
        /\ hist[p][i].err = transactionError
        /\ hist[p][i].codeQ = 1
        /\ \E t \in txs : t.from = p /\ t.status = "reverted"

C20_HandleHasCode ==
    \A e \in EndedCalls :
        (e.op = "deploy" /\ e.tag = "handle")
        => /\ e.data.defined
           /\ e.result = e.address
           /\ e.result = create2Address(HashZero, e.data.bytes)
           /\ e.lastCode > 2
           /\ e.codeQ = (IF e.sendN = 0 THEN 1 ELSE 2)
           /\ e.sendN = 0 => e.firstCode > 2

\* a handle returned after deploying: the first query found no code, the
\* second did
C20_Witness ==
    \E e \in EndedCalls :
        /\ e.op = "deploy" /\ e.tag = "handle"
        /\ e.sendN = 1 /\ e.codeQ = 2
        /\ e.firstCode = 2 /\ e.lastCode > 2

----------------------------------------------------------------------------
(* Properties of verifyContract and getLongVersion *)

\* C5: among the requests of one verifyContract call every submission to
\* Etherscan comes after a submission to Tenderly that completed, and a
\* Tenderly submission that threw is the call's last request: the call has
\* ended with that error.
C5_TenderlyFirst ==
    \A i \in 1..Len(vlog) :
        /\ vlog[i].svc = "etherscan"
           => \E j \in 1..(i - 1) : vlog[j].svc = "tenderly" /\ vlog[j].ok
        /\ (vlog[i].svc = "tenderly" /\ ~vlog[i].ok)
           => /\ i = Len(vlog)
              /\ vpc = "idle"
              /\ ~vres.ok /\ vres.text = "tenderly"

C5_Witness ==
    /\ vcall.op = "verifyContract"
    /\ vpc = "idle"
    /\ \E i \in 1..Len(vlog) : vlog[i].svc = "tenderly" /\ ~vlog[i].ok

\* the registry request of the running or last call has settled
Fetched == \E i \in 1..Len(vlog) : vlog[i].svc = "registry"

\* the cases of C10: the fetch failed, the status is outside 200..299, the
\* registry has no entry for the version, or the entry is the empty string
LookupCase(v, resp) ==
    \/ resp.failed
    \/ resp.status \notin 200..299
    \/ ~resp.hasReleases
    \/ v \notin DOMAIN resp.releases
    \/ resp.releases[v] = <<>>

\* C10: once the registry request of a call has settled in one of these
\* cases, the call has ended with the error "Unable to determine solidity
\* compiler version", has returned no version, and has made no other request.
C10_LookupFails ==
    (Fetched /\ LookupCase(vcall.version, vcall.response))
    => /\ vpc = "idle"
       /\ ~vres.ok
       /\ vres.value = <<>>
       /\ vres.text = "Unable to determine solidity compiler version"
       /\ Len(vlog) = 1

\* a 200 response whose entry for the requested version is the empty string
C10_Witness ==
    /\ Fetched
    /\ ~vcall.response.failed
    /\ vcall.response.status = 200
    /\ vcall.response.hasReleases
    /\ vcall.version \in DOMAIN vcall.response.releases
    /\ vcall.response.releases[vcall.version] = <<>>
    /\ ~vres.ok

\* C13, for deploy and addressOf: the error of a call that ended with one
\* names the contract and, when the call had derived the address, the address.
C13_DeployErrorsNameContext ==
    \A e \in EndedCalls :
        e.tag = "error"
        => /\ e.err.name = e.name
           /\ e.data.defined => (e.err.hasAddress /\ e.err.address = e.address)

\* C13, for version resolution: the error of a call that ended at the
\* registry lookup names the version that was asked for.
C13_LookupErrorsNameVersion ==
    (vpc = "idle" /\ ~vres.ok
       /\ vres.text = "Unable to determine solidity compiler version")
    => vres.names = vcall.version

\* C13 as claimed: every error that deploy, addressOf or version resolution
\* surfaces carries the identifiers of the failed operation.
C13_ErrorsCarryContext ==
    C13_DeployErrorsNameContext /\ C13_LookupErrorsNameVersion

\* the registry entry e is the file name 'soljson-' + L + '.js'
IsFileName(e) ==
    /\ Len(e) >= 11
    /\ SubSeq(e, 1, 8) = SOLJSON
    /\ SubSeq(e, Len(e) - 2, Len(e)) = <<".", "j", "s">>
Embedded(e) == SubSeq(e, 9, Len(e) - 3)

\* C14: once the registry has answered with a success status and its entry
\* for the requested short version is the file name 'soljson-' + L + '.js',
\* getLongVersion has returned exactly L, and a verifyContract call goes on
\* with L as its long version.
C14_ExtractsLongVersion ==
    (/\ Fetched
     /\ ~vcall.response.failed
     /\ vcall.response.status \in 200..299
     /\ vcall.response.hasReleases
     /\ vcall.version \in DOMAIN vcall.response.releases
     /\ IsFileName(vcall.response.releases[vcall.version]))
    => LET L == Embedded(vcall.response.releases[vcall.version])
       IN IF vcall.op = "getLongVersion"
          THEN vpc = "idle" /\ vres = VOk(L)
          ELSE /\ vcall.longVersion = L
               /\ \A i \in 1..Len(vlog) :
                     vlog[i].svc = "etherscan" => vlog[i].version = L

\* the entry for v1 embeds a long version that itself ends in "xjs"
C14_Witness ==
    /\ vcall.op = "getLongVersion"
    /\ vcall.version = V1
    /\ Fetched
    /\ V1 \in DOMAIN vcall.response.releases
    /\ vcall.response.releases[V1] =
          SOLJSON \o <<"v", "1", "+", "x", "j", "s">> \o <<".", "j", "s">>
    /\ vres = VOk(<<"v", "1", "+", "x", "j", "s">>)

\* the requests of the running or last call to one service
Requests(svc) == {i \in 1..Len(vlog) : vlog[i].svc = svc}

\* the version of the call is resolved: it was long, or the lookup succeeded
Resolved ==
    \/ includes(vcall.version, "+")
    \/ Fetched /\ ~LookupCase(vcall.version, vcall.response)

C11_LongVersionNoLookup ==
    (vcall.op = "verifyContract" /\ includes(vcall.version, "+"))
    => /\ Requests("registry") = {}
       /\ ~includes(vcall.shortVersion, "+")
       /\ \E n \in 1..Len(vcall.version) :
             /\ vcall.version[n] = "+"
             /\ vcall.shortVersion = SubSeq(vcall.version, 1, n - 1)
       /\ vcall.version = V1Long => vcall.shortVersion = V1
       /\ \A i \in Requests("tenderly") : vlog[i].version = vcall.shortVersion
       /\ \A i \in Requests("etherscan") : vlog[i].version = vcall.version

C11_Witness ==
    /\ vcall.op = "verifyContract"
    /\ vcall.version = V1Long
    /\ vpc = "idle" /\ vres.ok
    /\ \E i \in Requests("tenderly") : vlog[i].version = V1

\* two byte strings differ: in length, or in the byte at some position
Differ(a, b) == Len(a) # Len(b) \/ \E i \in 1..Len(a) : a[i] # b[i]

\* C12: a validateBytecode call has thrown "Bytecode mismatch" when the
\* factory's creation bytecode differs from the expected bytecode, if only
\* in one byte, and has returned without a value or an error when the two
\* are the same; it makes no request.
C12_ValidateBytecode ==
    (vcall.op = "validateBytecode")
    => /\ vpc = "idle"
       /\ vlog = <<>>
       /\ IF Differ(Bytecode(vcall.factory), vcall.expected)
          THEN vres = VError("Bytecode mismatch")
          ELSE vres = VOk(<<>>)

\* the expected bytecode has the length of the factory's and differs from
\* it in one byte
C12_Witness ==
    /\ vcall.op = "validateBytecode"
    /\ vcall.factory = "Counter"
    /\ vcall.expected = <<96, 129>>
    /\ vres = VError("Bytecode mismatch")

\* C18: once the Tenderly submission of a call has completed and its
\* Etherscan submission has thrown, the call has ended with the Etherscan
\* error and nothing else (no value, no outcome per backend); Tenderly was
\* submitted to once, and the failed Etherscan submission is the call's last
\* request: nothing is repeated or undone.
C18_SecondBackendError ==
    (/\ \E i \in Requests("tenderly") : vlog[i].ok
     /\ \E j \in Requests("etherscan") : ~vlog[j].ok)
    => /\ vpc = "idle"
       /\ vres = VError("etherscan")
       /\ Cardinality(Requests("tenderly")) = 1
       /\ Cardinality(Requests("etherscan")) = 1
       /\ vlog[Len(vlog)].svc = "etherscan"
       /\ vcall.adds = 1 /\ vcall.verifies = 1

C18_Witness ==
    /\ vcall.op = "verifyContract"
    /\ \E i \in Requests("tenderly") : vlog[i].ok
    /\ \E j \in Requests("etherscan") : ~vlog[j].ok
    /\ ~vres.ok

\* the submissions of the running or last call to the two backends
Submissions == Requests("tenderly") \cup Requests("etherscan")

\* C19: in a verifyContract call with a short version every submission to a
\* backend comes after the registry request, which succeeded; the call is
\* not at a submission before the registry has answered; and once the
\* lookup has failed the call has ended with an error without any
\* submission.
C19_LookupBeforeBackends ==
    (vcall.op = "verifyContract" /\ ~includes(vcall.version, "+"))
    => /\ \A i \in Submissions :
             /\ \E j \in Requests("registry") : j < i
             /\ ~LookupCase(vcall.version, vcall.response)
       /\ vpc \in {"tenderly", "etherscan"} => Fetched
       /\ (Fetched /\ LookupCase(vcall.version, vcall.response))
          => /\ vpc = "idle"
             /\ ~vres.ok
             /\ Submissions = {}

\* a verifyContract call for a version the registry does not list
C19_Witness ==
    /\ vcall.op = "verifyContract"
    /\ vcall.version = V3
    /\ Fetched
    /\ ~vcall.response.failed /\ vcall.response.status = 200
    /\ vcall.response.hasReleases
    /\ vpc = "idle" /\ ~vres.ok
    /\ Submissions = {}

====
